---- MODULE Spec2Model ----
(***************************************************************************)
(* Partner balance ledger of finance-partner: the tables partners,         *)
(* daily_sales, partner_transactions (business), personal_transactions     *)
(* and personal_balances, the trigger functions and row policies of the    *)
(* migrations, and the page handlers that call the store.                  *)
(*                                                                         *)
(* A store statement (INSERT/UPDATE/DELETE with its row triggers) is one   *)
(* atomic step.  A page handler is a sequence of such steps, one per       *)
(* awaited call, carried by a job record of the session that runs it.      *)
(* Row policies act as the store applies them: the USING expression of an  *)
(* UPDATE policy selects the stored rows a statement reaches and, where no *)
(* WITH CHECK is written, is also checked on the new row.  The update      *)
(* policy of personal_transactions in force is the one of autumn_unit: the *)
(* later one refers to OLD and NEW, which a policy cannot.  No function is *)
(* SECURITY DEFINER, so an UPDATE of partners inside a trigger function,   *)
(* like one issued by a page, reaches only the row of the signed-in user.  *)
(* The reconciliation blocks run with the migrations and reach every row.  *)
(* Identities are integers ordered like the uuids they stand for; NULL is  *)
(* 0; approved_at and rejection_reason are kept as "is set" flags.         *)
(***************************************************************************)
EXTENDS Integers, FiniteSets, Sequences, TLC

NumPartners == 3
MaxAmount == 2
NumDates == 2
MaxSales == 2
MaxTx == 2
MaxPTx == 2
MaxCalls == 3
MaxConcCalls == 2

NULL == 0
Partners == 1..NumPartners
Amounts == 1..MaxAmount
Dates == 1..NumDates
SaleIds == 1..MaxSales
TxIds == 1..MaxTx
PTxIds == 1..MaxPTx
Sessions == {1, 2}
Statuses == {"pending", "approved", "rejected"}

VARIABLES
  balance,    \* partners.current_balance, by partner id
  sales,      \* daily_sales rows, by id
  btx,        \* partner_transactions rows, by id
  ptx,        \* personal_transactions rows, by id
  pbal,       \* personal_balances rows: (partner_a_id, partner_b_id) -> balance_amount
  jobs,       \* the handler call each session is in the middle of
  last,       \* the call that returned most recently: what it was, its outcome,
              \* and the balances and the target row as they were when it was issued
  conc,       \* TRUE when handler calls of different sessions may interleave
  calls       \* number of calls that may still be issued

vars == <<balance, sales, btx, ptx, pbal, jobs, last, conc, calls>>

----------------------------------------------------------------------------
(* Rows *)

NoSale == [st |-> "free", date |-> 0, partner_id |-> NULL, total_amount |-> 0,
           created_by |-> NULL]

NoTx == [st |-> "free", from_partner_id |-> NULL, to_partner_id |-> NULL,
         amount |-> 0, status |-> "pending", approved_by |-> NULL,
         approved_at |-> FALSE, rejection_reason |-> FALSE]

Idle == [kind |-> "idle", pc |-> "idle", uid |-> NULL, id |-> 0, action |-> "none",
         date |-> 0, partner_id |-> NULL, amount |-> 0,
         from_partner_id |-> NULL, to_partner_id |-> NULL,
         currentBalance |-> 0, sender_balance |-> 0, receiver_balance |-> 0,
         bal0 |-> [p \in Partners |-> 0], pb0 |-> << >>,
         sale0 |-> NoSale, tx0 |-> NoTx]

NoCall == [op |-> "none", out |-> "none", uid |-> NULL, id |-> 0, action |-> "none",
           bal0 |-> [p \in Partners |-> 0], pb0 |-> << >>,
           sale0 |-> NoSale, tx0 |-> NoTx]

Live(rows) == {i \in DOMAIN rows : rows[i].st = "live"}
Free(rows) == {i \in DOMAIN rows : rows[i].st = "free"}

\* gen_random_uuid(): an identity never used before
NewId(rows) == CHOOSE i \in Free(rows) : \A j \in Free(rows) : i <= j

RECURSIVE SumOver(_, _)
SumOver(S, f) ==
  IF S = {} THEN 0
  ELSE LET x == CHOOSE y \in S : TRUE IN f[x] + SumOver(S \ {x}, f)

----------------------------------------------------------------------------
(* Trigger functions and constraints *)

\* "Partners can update their own data": the rows of partners an UPDATE issued
\* in the session of uid reaches
OwnData(uid, id) == uid = id

\* UPDATE partners SET current_balance = current_balance + d WHERE id = id, in
\* a trigger function that runs in the session of uid
AddBalance(uid, bal, id, d) ==
  IF id \in DOMAIN bal /\ OwnData(uid, id) THEN [bal EXCEPT ![id] = @ + d] ELSE bal

\* UPDATE partners SET current_balance = v WHERE id = id, issued by uid
SetBalance(uid, bal, id, v) ==
  IF id \in DOMAIN bal /\ OwnData(uid, id) THEN [bal EXCEPT ![id] = v] ELSE bal

update_partner_balance_from_sales(uid, bal, TG_OP, old, new) ==
  CASE TG_OP = "INSERT" ->
         IF new.partner_id # NULL
           THEN AddBalance(uid, bal, new.partner_id, new.total_amount)
           ELSE bal
    [] TG_OP = "UPDATE" ->
         IF old.partner_id # new.partner_id \/ old.total_amount # new.total_amount
           THEN LET b1 == IF old.partner_id # NULL
                            THEN AddBalance(uid, bal, old.partner_id, -old.total_amount)
                            ELSE bal
                IN  IF new.partner_id # NULL
                      THEN AddBalance(uid, b1, new.partner_id, new.total_amount)
                      ELSE b1
           ELSE bal
    [] TG_OP = "DELETE" ->
         IF old.partner_id # NULL
           THEN AddBalance(uid, bal, old.partner_id, -old.total_amount)
           ELSE bal

\* variant: the INSERT branch applies the amount whatever the status
update_business_partner_balances_insert_any(uid, bal, TG_OP, old, new) ==
  CASE TG_OP = "INSERT" ->
         AddBalance(uid, AddBalance(uid, bal, new.from_partner_id, -new.amount),
                    new.to_partner_id, new.amount)
    [] TG_OP = "DELETE" ->
         IF old.status = "approved"
           THEN AddBalance(uid, AddBalance(uid, bal, old.from_partner_id, old.amount),
                           old.to_partner_id, -old.amount)
           ELSE bal
    [] TG_OP = "UPDATE" ->
         IF old.status # "approved" /\ new.status = "approved"
           THEN AddBalance(uid, AddBalance(uid, bal, new.from_partner_id, -new.amount),
                           new.to_partner_id, new.amount)
           ELSE bal

update_business_partner_balances(uid, bal, TG_OP, old, new) ==
  CASE TG_OP = "INSERT" ->
         IF new.status = "approved"
           THEN AddBalance(uid, AddBalance(uid, bal, new.from_partner_id, -new.amount),
                           new.to_partner_id, new.amount)
           ELSE bal
    [] TG_OP = "DELETE" ->
         IF old.status = "approved"
           THEN AddBalance(uid, AddBalance(uid, bal, old.from_partner_id, old.amount),
                           old.to_partner_id, -old.amount)
           ELSE bal
    [] TG_OP = "UPDATE" ->
         LET b1 == IF old.status = "approved" /\ new.status # "approved"
                     THEN AddBalance(uid, AddBalance(uid, bal, old.from_partner_id, old.amount),
                                     old.to_partner_id, -old.amount)
                     ELSE bal
             b2 == IF old.status # "approved" /\ new.status = "approved"
                     THEN AddBalance(uid, AddBalance(uid, b1, new.from_partner_id, -new.amount),
                                     new.to_partner_id, new.amount)
                     ELSE b1
         IN  IF old.status = "approved" /\ new.status = "approved"
                /\ old.amount # new.amount
               THEN AddBalance(uid, AddBalance(uid, b2, new.from_partner_id,
                                          old.amount - new.amount),
                               new.to_partner_id, new.amount - old.amount)
               ELSE b2

\* BEFORE UPDATE trigger of partner_transactions
handle_business_transaction_approval(old, new) ==
  LET n1 == IF new.status = "approved" /\ old.status # "approved"
              THEN [new EXCEPT !.approved_at = TRUE]
              ELSE new
  IN  IF n1.status = "pending"
        THEN [n1 EXCEPT !.approved_by = NULL, !.approved_at = FALSE,
                        !.rejection_reason = FALSE]
        ELSE n1

\* BEFORE UPDATE trigger of personal_transactions
handle_transaction_approval(old, new) ==
  LET n1 == IF new.status = "approved" /\ old.status # "approved"
              THEN [new EXCEPT !.approved_at = TRUE]
              ELSE new
  IN  IF n1.status = "pending"
        THEN [n1 EXCEPT !.approved_by = NULL, !.approved_at = FALSE,
                        !.rejection_reason = FALSE]
        ELSE n1

\* variant: the constraint without its approved case's conditions
valid_business_approval_status_lax(r) ==
  \/ r.status = "pending" /\ r.approved_by = NULL /\ r.approved_at = FALSE
  \/ r.status = "approved"
  \/ r.status = "rejected" /\ r.approved_by # NULL

valid_business_approval_status(r) ==
  \/ r.status = "pending" /\ r.approved_by = NULL /\ r.approved_at = FALSE
  \/ r.status = "approved" /\ r.approved_by # NULL /\ r.approved_at = TRUE
  \/ r.status = "rejected" /\ r.approved_by # NULL

valid_approval_status(r) ==
  \/ r.status = "pending" /\ r.approved_by = NULL /\ r.approved_at = FALSE
  \/ r.status = "approved" /\ r.approved_by # NULL /\ r.approved_at = TRUE
  \/ r.status = "rejected" /\ r.approved_by # NULL

\* CONSTRAINT different_partners of partner_transactions
different_partners(r) == r.from_partner_id # r.to_partner_id

\* variant: personal_transactions without different_partners_personal
personal_checks_amount_only(r) == r.amount > 0

\* CHECK (amount > 0) and different_partners_personal of personal_transactions
personal_checks(r) == r.amount > 0 /\ r.from_partner_id # r.to_partner_id

\* variant: the sign rule of the pair's row inverted
SignedAmount_inverted(r) == IF r.from_partner_id < r.to_partner_id THEN r.amount ELSE -r.amount

\* the signed amount a personal transaction contributes to its pair's row
SignedAmount(r) == IF r.from_partner_id < r.to_partner_id THEN -r.amount ELSE r.amount

PairKey(r) == << IF r.from_partner_id < r.to_partner_id THEN r.from_partner_id
                                                        ELSE r.to_partner_id,
                 IF r.from_partner_id < r.to_partner_id THEN r.to_partner_id
                                                        ELSE r.from_partner_id >>

\* INSERT INTO personal_balances ... ON CONFLICT (partner_a_id, partner_b_id) DO UPDATE
UpsertPair(pb, k, d) ==
  IF k \in DOMAIN pb THEN [pb EXCEPT ![k] = @ + d] ELSE pb @@ (k :> d)

\* UPDATE personal_balances SET balance_amount = balance_amount + d WHERE pair = k
UpdatePair(pb, k, d) ==
  IF k \in DOMAIN pb THEN [pb EXCEPT ![k] = @ + d] ELSE pb

update_personal_balances(pb, TG_OP, old, new) ==
  CASE TG_OP = "INSERT" ->
         IF new.status = "approved"
           THEN UpsertPair(pb, PairKey(new), SignedAmount(new))
           ELSE pb
    [] TG_OP = "DELETE" ->
         IF old.status = "approved"
           THEN UpdatePair(pb, PairKey(old), -SignedAmount(old))
           ELSE pb
    [] TG_OP = "UPDATE" ->
         LET p1 == IF old.status = "approved" /\ new.status # "approved"
                     THEN UpdatePair(pb, PairKey(old), -SignedAmount(old))
                     ELSE pb
             p2 == IF old.status # "approved" /\ new.status = "approved"
                     THEN UpsertPair(p1, PairKey(new), SignedAmount(new))
                     ELSE p1
         IN  IF old.status = "approved" /\ new.status = "approved"
                /\ old.amount # new.amount
               THEN UpdatePair(p2, PairKey(old), SignedAmount(new) - SignedAmount(old))
               ELSE p2

----------------------------------------------------------------------------
(* Row policies *)

\* "Partners can update transactions involving themselves" (partner_transactions)
BusinessUpdateUsing(uid, r) ==
  \/ uid = r.from_partner_id /\ r.status = "pending"
  \/ uid = r.to_partner_id /\ r.status = "pending"
  \/ r.status = "approved" /\ (uid = r.from_partner_id \/ uid = r.to_partner_id)

\* "Partners can update their personal transactions" (personal_transactions)
PersonalUpdateUsing(uid, r) ==
  \/ uid = r.from_partner_id /\ r.status = "pending"
  \/ uid = r.to_partner_id /\ r.status = "pending"
  \/ r.status = "approved" /\ (uid = r.from_partner_id \/ uid = r.to_partner_id)

\* INSERT and DELETE policies of both transaction tables
InvolvesSelf(uid, r) == uid = r.from_partner_id \/ uid = r.to_partner_id

\* INSERT, UPDATE and DELETE policies of daily_sales
CreatedBySelf(uid, r) == uid = r.created_by

----------------------------------------------------------------------------
(* Store statements: the row change with its triggers, constraints and policy *)

\* UPDATE partner_transactions SET ... WHERE id = old.id, issued by uid; the
\* policy has no WITH CHECK, so its USING expression is also checked on the new
\* row, after the BEFORE trigger
UpdateBusinessRow(uid, bal, old, set) ==
  IF old.st # "live" \/ ~BusinessUpdateUsing(uid, old)
    THEN [out |-> "norows", row |-> old, bal |-> bal]
    ELSE LET new == handle_business_transaction_approval(old, set)
         IN  IF BusinessUpdateUsing(uid, new)
                /\ valid_business_approval_status(new) /\ different_partners(new)
               THEN [out |-> "ok", row |-> new,
                     bal |-> update_business_partner_balances(uid, bal, "UPDATE", old, new)]
               ELSE [out |-> "error", row |-> old, bal |-> bal]

\* UPDATE personal_transactions SET ... WHERE id = old.id, issued by uid; the
\* policy has no WITH CHECK, so its USING expression is also checked on the new
\* row, after the BEFORE trigger
UpdatePersonalRow(uid, pb, old, set) ==
  IF old.st # "live" \/ ~PersonalUpdateUsing(uid, old)
    THEN [out |-> "norows", row |-> old, pb |-> pb]
    ELSE LET new == handle_transaction_approval(old, set)
         IN  IF PersonalUpdateUsing(uid, new)
                /\ valid_approval_status(new) /\ personal_checks(new)
               THEN [out |-> "ok", row |-> new,
                     pb |-> update_personal_balances(pb, "UPDATE", old, new)]
               ELSE [out |-> "error", row |-> old, pb |-> pb]

\* the value the reconciliation block stores for partner p
Reconciled(p) ==
  LET mine == {i \in Live(sales) : sales[i].partner_id = p}
      inb  == {i \in Live(btx) : btx[i].status = "approved" /\ btx[i].to_partner_id = p}
      outb == {i \in Live(btx) : btx[i].status = "approved"
                                 /\ btx[i].from_partner_id = p
                                 /\ btx[i].to_partner_id # p}
  IN  SumOver(mine, [i \in SaleIds |-> sales[i].total_amount])
      + SumOver(inb, [i \in TxIds |-> btx[i].amount])
      - SumOver(outb, [i \in TxIds |-> btx[i].amount])

----------------------------------------------------------------------------
(* Initial state: the partners exist with balance 0 and the tables are empty *)

Init ==
  /\ balance = [p \in Partners |-> 0]
  /\ sales = [i \in SaleIds |-> NoSale]
  /\ btx = [i \in TxIds |-> NoTx]
  /\ ptx = [i \in PTxIds |-> NoTx]
  /\ pbal = << >>
  /\ jobs = [s \in Sessions |-> Idle]
  /\ last = NoCall
  /\ conc = FALSE
  /\ calls = MaxCalls

InitConc ==
  /\ balance = [p \in Partners |-> 0]
  /\ sales = [i \in SaleIds |-> NoSale]
  /\ btx = [i \in TxIds |-> NoTx]
  /\ ptx = [i \in PTxIds |-> NoTx]
  /\ pbal = << >>
  /\ jobs = [s \in Sessions |-> Idle]
  /\ last = NoCall
  /\ conc = TRUE
  /\ calls = MaxConcCalls

\* a state with one sale entry of a partner for itself, as handleSubmit leaves
\* it (the amount added by the trigger and again by updatePartnerBalance),
\* from which handler calls of different sessions interleave
InitSaleConc ==
  /\ \E u \in Partners, d \in Dates, a \in Amounts :
       /\ balance = [p \in Partners |-> IF p = u THEN 2 * a ELSE 0]
       /\ sales = [i \in SaleIds |->
                     IF i = 1 THEN [st |-> "live", date |-> d, partner_id |-> u,
                                    total_amount |-> a, created_by |-> u]
                              ELSE NoSale]
  /\ btx = [i \in TxIds |-> NoTx]
  /\ ptx = [i \in PTxIds |-> NoTx]
  /\ pbal = << >>
  /\ jobs = [s \in Sessions |-> Idle]
  /\ last = NoCall
  /\ conc = TRUE
  /\ calls = MaxConcCalls

\* a state with one pending business transaction, as handleTransactionSubmit
\* leaves it, from which handler calls of different sessions interleave
InitPendingConc ==
  /\ balance = [p \in Partners |-> 0]
  /\ sales = [i \in SaleIds |-> NoSale]
  /\ \E f \in Partners, a \in Amounts : \E t \in Partners \ {f} :
       btx = [i \in TxIds |->
                IF i = 1 THEN [NoTx EXCEPT !.st = "live", !.from_partner_id = f,
                                           !.to_partner_id = t, !.amount = a,
                                           !.status = "pending"]
                         ELSE NoTx]
  /\ ptx = [i \in PTxIds |-> NoTx]
  /\ pbal = << >>
  /\ jobs = [s \in Sessions |-> Idle]
  /\ last = NoCall
  /\ conc = TRUE
  /\ calls = MaxConcCalls

\* a state with two pending personal transactions, as two calls of
\* handleTransactionSubmit of the personal page leave it, from which the
\* statements of different sessions interleave
InitPersonalPending ==
  /\ balance = [p \in Partners |-> 0]
  /\ sales = [i \in SaleIds |-> NoSale]
  /\ btx = [i \in TxIds |-> NoTx]
  /\ \E f1 \in Partners, f2 \in Partners, a1 \in Amounts, a2 \in Amounts :
       \E t1 \in Partners \ {f1}, t2 \in Partners \ {f2} :
         ptx = [i \in PTxIds |->
                  [NoTx EXCEPT !.st = "live",
                               !.from_partner_id = IF i = 1 THEN f1 ELSE f2,
                               !.to_partner_id = IF i = 1 THEN t1 ELSE t2,
                               !.amount = IF i = 1 THEN a1 ELSE a2,
                               !.status = "pending"]]
  /\ pbal = << >>
  /\ jobs = [s \in Sessions |-> Idle]
  /\ last = NoCall
  /\ conc = TRUE
  /\ calls = MaxConcCalls

\* the state before any partner exists; the calls of the sessions interleave
InitNoPartners ==
  /\ balance = << >>
  /\ sales = [i \in SaleIds |-> NoSale]
  /\ btx = [i \in TxIds |-> NoTx]
  /\ ptx = [i \in PTxIds |-> NoTx]
  /\ pbal = << >>
  /\ jobs = [s \in Sessions |-> Idle]
  /\ last = NoCall
  /\ conc = TRUE
  /\ calls = MaxCalls

AllIdle == \A s \in Sessions : jobs[s] = Idle

\* a call may be issued: sequentially after the previous one has returned, or at
\* any time when calls interleave; a run ends when its calls are used up
CanStart ==
  /\ conc \/ AllIdle
  /\ calls > 0
  /\ calls' = calls - 1

\* the session that takes the next multi-step call
FreeSession(s) ==
  /\ jobs[s] = Idle
  /\ \A r \in Sessions : jobs[r] = Idle => s <= r

\* a single-statement call returns; action is the status or action it asked for
DoneWith(op, out, uid, id, action, sale0, tx0) ==
  last' = [op |-> op, out |-> out, uid |-> uid, id |-> id, action |-> action,
           bal0 |-> balance, pb0 |-> pbal, sale0 |-> sale0, tx0 |-> tx0]

Done(op, out, uid, id, sale0, tx0) == DoneWith(op, out, uid, id, "none", sale0, tx0)

\* the multi-step call of session s returns
Finish(s, out) ==
  /\ last' = [op |-> jobs[s].kind, out |-> out, uid |-> jobs[s].uid,
              id |-> jobs[s].id, action |-> jobs[s].action,
              bal0 |-> jobs[s].bal0, pb0 |-> jobs[s].pb0,
              sale0 |-> jobs[s].sale0, tx0 |-> jobs[s].tx0]
  /\ jobs' = [jobs EXCEPT ![s] = Idle]

InsertsInFlight == Cardinality({s \in Sessions : jobs[s].pc = "insert"})

----------------------------------------------------------------------------
(* DailySales page *)

\* for a new entry the filter compares id with '', which the store refuses
\* for a uuid column: the select returns no data and the answer is false
checkDateExists(date, excludeId) ==
  /\ excludeId # NULL
  /\ \E i \in Live(sales) : sales[i].date = date /\ i # excludeId

\* handleSubmit up to the duplicate-date check; editingId = NULL for a new entry
handleSubmit(s, u, editingId, date, partner, amt) ==
  LET sale0 == IF editingId = NULL THEN NoSale ELSE sales[editingId]
  IN  /\ CanStart
      /\ FreeSession(s)
      /\ IF editingId = NULL
           THEN Cardinality(Free(sales)) > InsertsInFlight
           ELSE editingId \in Live(sales)
      /\ IF checkDateExists(date, editingId)
           THEN /\ Done("handleSubmit", "DuplicateDate", u, editingId, sale0, NoTx)
                /\ UNCHANGED jobs
           ELSE /\ jobs' = [jobs EXCEPT ![s] =
                     [Idle EXCEPT !.kind = "handleSubmit",
                                  !.pc = IF editingId = NULL THEN "insert" ELSE "update",
                                  !.uid = u, !.id = editingId, !.date = date,
                                  !.partner_id = partner, !.amount = amt,
                                  !.bal0 = balance, !.pb0 = pbal, !.sale0 = sale0]]
                /\ UNCHANGED last
      /\ UNCHANGED <<balance, sales, btx, ptx, pbal, conc>>

\* variant: daily_sales.date without the UNIQUE constraint
date_unique_absent(rows, id, date) == TRUE

\* the UNIQUE constraint on daily_sales.date
date_unique(rows, id, date) ==
  ~ \E i \in Live(rows) : i # id /\ rows[i].date = date

\* handleSubmit: insert into daily_sales, trigger included
handleSubmitInsert(s) ==
  LET j == jobs[s]
      id == NewId(sales)
      new == [st |-> "live", date |-> j.date, partner_id |-> j.partner_id,
              total_amount |-> j.amount, created_by |-> j.uid]
  IN  /\ j.kind = "handleSubmit" /\ j.pc = "insert"
      /\ IF ~date_unique(sales, NULL, j.date)
           THEN /\ Finish(s, "UniqueViolation")
                /\ UNCHANGED <<balance, sales>>
           ELSE /\ sales' = [sales EXCEPT ![id] = new]
                /\ balance' = update_partner_balance_from_sales(j.uid, balance, "INSERT",
                                                                NoSale, new)
                /\ jobs' = [jobs EXCEPT ![s].pc = "balanceRead", ![s].id = id]
                /\ UNCHANGED last
      /\ UNCHANGED <<btx, ptx, pbal, conc, calls>>

\* updatePartnerBalance: select current_balance
updatePartnerBalanceRead(s) ==
  LET j == jobs[s]
  IN  /\ j.kind = "handleSubmit" /\ j.pc = "balanceRead"
      /\ jobs' = [jobs EXCEPT ![s].pc = "balanceWrite",
                              ![s].currentBalance = balance[j.partner_id]]
      /\ UNCHANGED <<balance, sales, btx, ptx, pbal, last, conc, calls>>

\* updatePartnerBalance: update current_balance with the value computed from the read
updatePartnerBalanceWrite(s) ==
  LET j == jobs[s]
  IN  /\ j.kind = "handleSubmit" /\ j.pc = "balanceWrite"
      /\ balance' = SetBalance(j.uid, balance, j.partner_id, j.currentBalance + j.amount)
      /\ Finish(s, "ok")
      /\ UNCHANGED <<sales, btx, ptx, pbal, conc, calls>>

\* handleSubmit: update of the entry being edited, trigger included
handleSubmitUpdate(s) ==
  LET j == jobs[s]
      old == sales[j.id]
      new == [old EXCEPT !.date = j.date, !.partner_id = j.partner_id,
                         !.total_amount = j.amount]
  IN  /\ j.kind = "handleSubmit" /\ j.pc = "update"
      /\ IF old.st # "live" \/ ~CreatedBySelf(j.uid, old)
           THEN /\ Finish(s, "norows")
                /\ UNCHANGED <<balance, sales>>
           ELSE IF ~date_unique(sales, j.id, j.date)
             THEN /\ Finish(s, "UniqueViolation")
                  /\ UNCHANGED <<balance, sales>>
             ELSE /\ sales' = [sales EXCEPT ![j.id] = new]
                  /\ balance' = update_partner_balance_from_sales(j.uid, balance, "UPDATE",
                                                                  old, new)
                  /\ Finish(s, "ok")
      /\ UNCHANGED <<btx, ptx, pbal, conc, calls>>

\* handleSubmit of the page without partner selection, up to the
\* duplicate-date check; editingId = NULL for a new entry
handleSubmitWithoutPartner(s, u, editingId, date, amt) ==
  LET sale0 == IF editingId = NULL THEN NoSale ELSE sales[editingId]
  IN  /\ CanStart
      /\ FreeSession(s)
      /\ IF editingId = NULL
           THEN Cardinality(Free(sales)) > InsertsInFlight
           ELSE editingId \in Live(sales)
      /\ IF checkDateExists(date, editingId)
           THEN /\ Done("handleSubmitWithoutPartner", "DuplicateDate", u, editingId,
                        sale0, NoTx)
                /\ UNCHANGED jobs
           ELSE /\ jobs' = [jobs EXCEPT ![s] =
                     [Idle EXCEPT !.kind = "handleSubmitWithoutPartner",
                                  !.pc = IF editingId = NULL THEN "insert" ELSE "update",
                                  !.uid = u, !.id = editingId, !.date = date,
                                  !.amount = amt,
                                  !.bal0 = balance, !.pb0 = pbal, !.sale0 = sale0]]
                /\ UNCHANGED last
      /\ UNCHANGED <<balance, sales, btx, ptx, pbal, conc>>

\* handleSubmit of the page without partner selection: insert into daily_sales
handleSubmitWithoutPartnerInsert(s) ==
  LET j == jobs[s]
      id == NewId(sales)
      new == [st |-> "live", date |-> j.date, partner_id |-> NULL,
              total_amount |-> j.amount, created_by |-> j.uid]
  IN  /\ j.kind = "handleSubmitWithoutPartner" /\ j.pc = "insert"
      /\ IF ~date_unique(sales, NULL, j.date)
           THEN /\ Finish(s, "UniqueViolation")
                /\ UNCHANGED <<balance, sales>>
           ELSE /\ sales' = [sales EXCEPT ![id] = new]
                /\ balance' = update_partner_balance_from_sales(j.uid, balance, "INSERT",
                                                                NoSale, new)
                /\ Finish(s, "ok")
      /\ UNCHANGED <<btx, ptx, pbal, conc, calls>>

\* handleSubmit of the page without partner selection: update of the date and
\* the amounts of the entry being edited; partner_id is not in the statement
handleSubmitWithoutPartnerUpdate(s) ==
  LET j == jobs[s]
      old == sales[j.id]
      new == [old EXCEPT !.date = j.date, !.total_amount = j.amount]
  IN  /\ j.kind = "handleSubmitWithoutPartner" /\ j.pc = "update"
      /\ IF old.st # "live" \/ ~CreatedBySelf(j.uid, old)
           THEN /\ Finish(s, "norows")
                /\ UNCHANGED <<balance, sales>>
           ELSE IF ~date_unique(sales, j.id, j.date)
             THEN /\ Finish(s, "UniqueViolation")
                  /\ UNCHANGED <<balance, sales>>
             ELSE /\ sales' = [sales EXCEPT ![j.id] = new]
                  /\ balance' = update_partner_balance_from_sales(j.uid, balance,
                                                                  "UPDATE", old, new)
                  /\ Finish(s, "ok")
      /\ UNCHANGED <<btx, ptx, pbal, conc, calls>>

handleDelete(u, id) ==
  /\ CanStart
  /\ id \in Live(sales)
  /\ IF CreatedBySelf(u, sales[id])
       THEN /\ sales' = [sales EXCEPT ![id] = [NoSale EXCEPT !.st = "gone"]]
            /\ balance' = update_partner_balance_from_sales(u, balance, "DELETE",
                                                            sales[id], NoSale)
            /\ Done("handleDelete", "ok", u, id, sales[id], NoTx)
       ELSE /\ UNCHANGED <<balance, sales>>
            /\ Done("handleDelete", "norows", u, id, sales[id], NoTx)
  /\ UNCHANGED <<btx, ptx, pbal, jobs, conc>>

----------------------------------------------------------------------------
(* Partners page: business transactions *)

handleTransactionSubmit(u, from, to, amt) ==
  LET id == NewId(btx)
      new == [NoTx EXCEPT !.st = "live", !.from_partner_id = from,
                          !.to_partner_id = to, !.amount = amt,
                          !.status = "pending"]
  IN  /\ CanStart
      /\ Free(btx) # {}
      /\ IF from = to
           THEN /\ Done("handleTransactionSubmit", "SamePartner", u, id, NoSale, NoTx)
                /\ UNCHANGED <<balance, btx>>
           ELSE IF ~InvolvesSelf(u, new)
             THEN /\ Done("handleTransactionSubmit", "error", u, id, NoSale, NoTx)
                  /\ UNCHANGED <<balance, btx>>
             ELSE /\ btx' = [btx EXCEPT ![id] = new]
                  /\ balance' = update_business_partner_balances(u, balance, "INSERT",
                                                                 NoTx, new)
                  /\ Done("handleTransactionSubmit", "ok", u, id, NoSale, NoTx)
      /\ UNCHANGED <<sales, ptx, pbal, jobs, conc>>

\* handleApproveTransaction up to the fetch of the transaction by id; every
\* partner may read every transaction, and the handler does not look at who
\* the receiver is or at the status: the page's list of pending transactions
\* was filtered when it was read, and the row may have changed since
handleApproveTransaction(s, u, t, action) ==
  /\ CanStart
  /\ FreeSession(s)
  /\ t \in Live(btx)
  /\ jobs' = [jobs EXCEPT ![s] =
        [Idle EXCEPT !.kind = "handleApproveTransaction", !.pc = "update",
                     !.uid = u, !.id = t, !.action = action,
                     !.from_partner_id = btx[t].from_partner_id,
                     !.to_partner_id = btx[t].to_partner_id,
                     !.amount = btx[t].amount,
                     !.bal0 = balance, !.pb0 = pbal, !.tx0 = btx[t]]]
  /\ UNCHANGED <<balance, sales, btx, ptx, pbal, last, conc>>

\* the status values handleApproveTransaction and handleTransactionApproval send
ApprovalStatus(action) == IF action = "approve" THEN "approved" ELSE "rejected"

\* handleApproveTransaction: update of status, approved_by, approved_at
handleApproveUpdate(s) ==
  LET j == jobs[s]
      old == btx[j.id]
      set == [old EXCEPT !.status = ApprovalStatus(j.action),
                         !.approved_by = j.uid, !.approved_at = TRUE,
                         !.rejection_reason =
                            IF j.action = "rejectWithReason" THEN TRUE ELSE @]
      r == UpdateBusinessRow(j.uid, balance, old, set)
  IN  /\ j.kind = "handleApproveTransaction" /\ j.pc = "update"
      /\ btx' = [btx EXCEPT ![j.id] = r.row]
      /\ balance' = r.bal
      /\ IF r.out = "error"
           THEN Finish(s, "error")
           ELSE IF j.action = "approve"
             THEN jobs' = [jobs EXCEPT ![s].pc = "readSender"] /\ UNCHANGED last
             ELSE Finish(s, "ok")
      /\ UNCHANGED <<sales, ptx, pbal, conc, calls>>

handleApproveReadSender(s) ==
  LET j == jobs[s]
  IN  /\ j.kind = "handleApproveTransaction" /\ j.pc = "readSender"
      /\ jobs' = [jobs EXCEPT ![s].pc = "readReceiver",
                              ![s].sender_balance = balance[j.from_partner_id]]
      /\ UNCHANGED <<balance, sales, btx, ptx, pbal, last, conc, calls>>

handleApproveReadReceiver(s) ==
  LET j == jobs[s]
  IN  /\ j.kind = "handleApproveTransaction" /\ j.pc = "readReceiver"
      /\ jobs' = [jobs EXCEPT ![s].pc = "writeSender",
                              ![s].receiver_balance = balance[j.to_partner_id]]
      /\ UNCHANGED <<balance, sales, btx, ptx, pbal, last, conc, calls>>

handleApproveWriteSender(s) ==
  LET j == jobs[s]
  IN  /\ j.kind = "handleApproveTransaction" /\ j.pc = "writeSender"
      /\ balance' = SetBalance(j.uid, balance, j.from_partner_id,
                             j.sender_balance - j.amount)
      /\ jobs' = [jobs EXCEPT ![s].pc = "writeReceiver"]
      /\ UNCHANGED <<sales, btx, ptx, pbal, last, conc, calls>>

handleApproveWriteReceiver(s) ==
  LET j == jobs[s]
  IN  /\ j.kind = "handleApproveTransaction" /\ j.pc = "writeReceiver"
      /\ balance' = SetBalance(j.uid, balance, j.to_partner_id,
                             j.receiver_balance + j.amount)
      /\ Finish(s, "ok")
      /\ UNCHANGED <<sales, btx, ptx, pbal, conc, calls>>

handleDeleteTransaction(u, t) ==
  /\ CanStart
  /\ t \in Live(btx)
  /\ IF InvolvesSelf(u, btx[t])
       THEN /\ btx' = [btx EXCEPT ![t] = [NoTx EXCEPT !.st = "gone"]]
            /\ balance' = update_business_partner_balances(u, balance, "DELETE",
                                                           btx[t], NoTx)
            /\ Done("handleDeleteTransaction", "ok", u, t, NoSale, btx[t])
       ELSE /\ UNCHANGED <<balance, btx>>
            /\ Done("handleDeleteTransaction", "norows", u, t, NoSale, btx[t])
  /\ UNCHANGED <<sales, ptx, pbal, jobs, conc>>

\* an UPDATE of partner_transactions.amount issued by u through the store interface
updateTransactionAmount(u, t, amt) ==
  LET old == btx[t]
      r == UpdateBusinessRow(u, balance, old, [old EXCEPT !.amount = amt])
  IN  /\ CanStart
      /\ t \in Live(btx)
      /\ btx' = [btx EXCEPT ![t] = r.row]
      /\ balance' = r.bal
      /\ Done("updateTransactionAmount", r.out, u, t, NoSale, old)
      /\ UNCHANGED <<sales, ptx, pbal, jobs, conc>>

\* an UPDATE of partner_transactions.status issued by u through the store
\* interface, with u as approver
updateTransactionStatus(u, t, status) ==
  LET old == btx[t]
      set == [old EXCEPT !.status = status, !.approved_by = u, !.approved_at = TRUE]
      r == UpdateBusinessRow(u, balance, old, set)
  IN  /\ CanStart
      /\ t \in Live(btx)
      /\ btx' = [btx EXCEPT ![t] = r.row]
      /\ balance' = r.bal
      /\ DoneWith("updateTransactionStatus", r.out, u, t, status, NoSale, old)
      /\ UNCHANGED <<sales, ptx, pbal, jobs, conc>>

----------------------------------------------------------------------------
(* PersonalSpace page: personal transactions *)

handleTransactionSubmitPersonal(u, from, to, amt) ==
  LET id == NewId(ptx)
      new == [NoTx EXCEPT !.st = "live", !.from_partner_id = from,
                          !.to_partner_id = to, !.amount = amt,
                          !.status = "pending"]
  IN  /\ CanStart
      /\ Free(ptx) # {}
      /\ IF ~InvolvesSelf(u, new)
           THEN /\ Done("handleTransactionSubmitPersonal", "error", u, id, NoSale, NoTx)
                /\ UNCHANGED <<ptx, pbal>>
           ELSE IF ~personal_checks(new)
             THEN /\ Done("handleTransactionSubmitPersonal", "CheckViolation", u, id,
                          NoSale, NoTx)
                  /\ UNCHANGED <<ptx, pbal>>
             ELSE
                /\ ptx' = [ptx EXCEPT ![id] = new]
                /\ pbal' = update_personal_balances(pbal, "INSERT", NoTx, new)
                /\ Done("handleTransactionSubmitPersonal", "ok", u, id, NoSale, NoTx)
      /\ UNCHANGED <<balance, sales, btx, jobs, conc>>

\* handleTransactionApproval: one UPDATE of status and approved_by by id; the
\* handler does not look at who the receiver is or at the status, the page's
\* list was filtered when it was read
handleTransactionApproval(u, t, action) ==
  LET old == ptx[t]
      set == [old EXCEPT !.status = ApprovalStatus(action), !.approved_by = u,
                         !.rejection_reason =
                            IF action = "rejectWithReason" THEN TRUE ELSE @]
      r == UpdatePersonalRow(u, pbal, old, set)
  IN  /\ CanStart
      /\ t \in Live(ptx)
      /\ ptx' = [ptx EXCEPT ![t] = r.row]
      /\ pbal' = r.pb
      /\ DoneWith("handleTransactionApproval", r.out, u, t, action, NoSale, old)
      /\ UNCHANGED <<balance, sales, btx, jobs, conc>>

\* an UPDATE of personal_transactions.amount issued by u through the store interface
updatePersonalAmount(u, t, amt) ==
  LET old == ptx[t]
      r == UpdatePersonalRow(u, pbal, old, [old EXCEPT !.amount = amt])
  IN  /\ CanStart
      /\ t \in Live(ptx)
      /\ ptx' = [ptx EXCEPT ![t] = r.row]
      /\ pbal' = r.pb
      /\ Done("updatePersonalAmount", r.out, u, t, NoSale, old)
      /\ UNCHANGED <<balance, sales, btx, jobs, conc>>

\* an UPDATE of personal_transactions.status issued by u through the store
\* interface, with u as approver
updatePersonalStatus(u, t, status) ==
  LET old == ptx[t]
      set == [old EXCEPT !.status = status, !.approved_by = u]
      r == UpdatePersonalRow(u, pbal, old, set)
  IN  /\ CanStart
      /\ t \in Live(ptx)
      /\ ptx' = [ptx EXCEPT ![t] = r.row]
      /\ pbal' = r.pb
      /\ DoneWith("updatePersonalStatus", r.out, u, t, status, NoSale, old)
      /\ UNCHANGED <<balance, sales, btx, jobs, conc>>

\* a DELETE of a personal transaction issued by u through the store interface
deletePersonalTransaction(u, t) ==
  /\ CanStart
  /\ t \in Live(ptx)
  /\ IF InvolvesSelf(u, ptx[t])
       THEN /\ ptx' = [ptx EXCEPT ![t] = [NoTx EXCEPT !.st = "gone"]]
            /\ pbal' = update_personal_balances(pbal, "DELETE", ptx[t], NoTx)
            /\ Done("deletePersonalTransaction", "ok", u, t, NoSale, ptx[t])
       ELSE /\ UNCHANGED <<ptx, pbal>>
            /\ Done("deletePersonalTransaction", "norows", u, t, NoSale, ptx[t])
  /\ UNCHANGED <<balance, sales, btx, jobs, conc>>

\* variant: the block adds the totals to the stored balance instead of resetting it
reconcile_all_balances_additive(bal) ==
  [p \in DOMAIN bal |->
     bal[p]
     + SumOver({i \in Live(sales) : sales[i].partner_id = p},
               [i \in SaleIds |-> sales[i].total_amount])
     + SumOver({i \in Live(btx) : btx[i].status = "approved"
                                  /\ (btx[i].from_partner_id = p
                                      \/ btx[i].to_partner_id = p)},
               [i \in TxIds |-> IF btx[i].to_partner_id = p THEN btx[i].amount
                                ELSE -btx[i].amount])]

\* the reconciliation block: reset, set the sales totals, add the net of the
\* approved business transactions
reconcile_all_balances(bal) ==
  LET reset == [p \in DOMAIN bal |-> 0]
      withSales == [p \in DOMAIN reset |->
                      SumOver({i \in Live(sales) : sales[i].partner_id = p},
                              [i \in SaleIds |-> sales[i].total_amount])]
  IN  [p \in DOMAIN withSales |->
         withSales[p]
         + SumOver({i \in Live(btx) : btx[i].status = "approved"
                                      /\ (btx[i].from_partner_id = p
                                          \/ btx[i].to_partner_id = p)},
                   [i \in TxIds |-> IF btx[i].to_partner_id = p THEN btx[i].amount
                                    ELSE -btx[i].amount])]

\* a run of the reconciliation block
reconcileAllBalances ==
  /\ CanStart
  /\ balance' = reconcile_all_balances(balance)
  /\ Done("reconcileAllBalances", "ok", NULL, 0, NoSale, NoTx)
  /\ UNCHANGED <<sales, btx, ptx, pbal, jobs, conc>>

\* an INSERT into daily_sales issued by u through the store interface; the
\* partner is NULL when the entry names none
insertSale(u, date, partner, amt) ==
  LET id == NewId(sales)
      new == [st |-> "live", date |-> date, partner_id |-> partner,
              total_amount |-> amt, created_by |-> u]
  IN  /\ CanStart
      /\ Free(sales) # {}
      /\ IF ~date_unique(sales, NULL, date)
           THEN /\ Done("insertSale", "UniqueViolation", u, id, NoSale, NoTx)
                /\ UNCHANGED <<balance, sales>>
           ELSE /\ sales' = [sales EXCEPT ![id] = new]
                /\ balance' = update_partner_balance_from_sales(u, balance, "INSERT",
                                                                NoSale, new)
                /\ Done("insertSale", "ok", u, id, NoSale, NoTx)
      /\ UNCHANGED <<btx, ptx, pbal, jobs, conc>>

\* an UPDATE of daily_sales.partner_id and total_amount issued by u through the
\* store interface
updateSale(u, id, partner, amt) ==
  LET old == sales[id]
      new == [old EXCEPT !.partner_id = partner, !.total_amount = amt]
  IN  /\ CanStart
      /\ id \in Live(sales)
      /\ IF ~CreatedBySelf(u, old)
           THEN /\ Done("updateSale", "norows", u, id, old, NoTx)
                /\ UNCHANGED <<balance, sales>>
           ELSE /\ sales' = [sales EXCEPT ![id] = new]
                /\ balance' = update_partner_balance_from_sales(u, balance, "UPDATE",
                                                                old, new)
                /\ Done("updateSale", "ok", u, id, old, NoTx)
      /\ UNCHANGED <<btx, ptx, pbal, jobs, conc>>

\* an UPDATE partner_transactions SET status = ... and nothing else, issued by u
\* through the store interface
setTransactionStatus(u, t, status) ==
  LET old == btx[t]
      r == UpdateBusinessRow(u, balance, old, [old EXCEPT !.status = status])
  IN  /\ CanStart
      /\ t \in Live(btx)
      /\ btx' = [btx EXCEPT ![t] = r.row]
      /\ balance' = r.bal
      /\ DoneWith("setTransactionStatus", r.out, u, t, status, NoSale, old)
      /\ UNCHANGED <<sales, ptx, pbal, jobs, conc>>

\* an UPDATE personal_transactions SET status = ... and nothing else, issued by
\* u through the store interface
setPersonalStatus(u, t, status) ==
  LET old == ptx[t]
      r == UpdatePersonalRow(u, pbal, old, [old EXCEPT !.status = status])
  IN  /\ CanStart
      /\ t \in Live(ptx)
      /\ ptx' = [ptx EXCEPT ![t] = r.row]
      /\ pbal' = r.pb
      /\ DoneWith("setPersonalStatus", r.out, u, t, status, NoSale, old)
      /\ UNCHANGED <<balance, sales, btx, jobs, conc>>

\* the storage call a handler is waiting on returns an error: the handler
\* throws to its catch block and returns; what it has done so far stays
storageFailure(s) ==
  /\ jobs[s] # Idle
  /\ Finish(s, "error")
  /\ UNCHANGED <<balance, sales, btx, ptx, pbal, conc, calls>>

\* an UPDATE of partner_transactions.from_partner_id and to_partner_id issued by
\* u through the store interface
updateTransactionPartners(u, t, from, to) ==
  LET old == btx[t]
      set == [old EXCEPT !.from_partner_id = from, !.to_partner_id = to]
      r == UpdateBusinessRow(u, balance, old, set)
  IN  /\ CanStart
      /\ t \in Live(btx)
      /\ btx' = [btx EXCEPT ![t] = r.row]
      /\ balance' = r.bal
      /\ Done("updateTransactionPartners", r.out, u, t, NoSale, old)
      /\ UNCHANGED <<sales, ptx, pbal, jobs, conc>>

\* an UPDATE of personal_transactions.from_partner_id and to_partner_id issued
\* by u through the store interface
updatePersonalPartners(u, t, from, to) ==
  LET old == ptx[t]
      set == [old EXCEPT !.from_partner_id = from, !.to_partner_id = to]
      r == UpdatePersonalRow(u, pbal, old, set)
  IN  /\ CanStart
      /\ t \in Live(ptx)
      /\ ptx' = [ptx EXCEPT ![t] = r.row]
      /\ pbal' = r.pb
      /\ Done("updatePersonalPartners", r.out, u, t, NoSale, old)
      /\ UNCHANGED <<balance, sales, btx, jobs, conc>>

\* the earlier reconciliation block: reset, set the sales totals, add the net
\* of the approved personal transactions
reconcile_sales_and_personal(bal) ==
  LET reset == [p \in DOMAIN bal |-> 0]
      withSales == [p \in DOMAIN reset |->
                      SumOver({i \in Live(sales) : sales[i].partner_id = p},
                              [i \in SaleIds |-> sales[i].total_amount])]
  IN  [p \in DOMAIN withSales |->
         withSales[p]
         + SumOver({i \in Live(ptx) : ptx[i].status = "approved"
                                      /\ (ptx[i].from_partner_id = p
                                          \/ ptx[i].to_partner_id = p)},
                   [i \in PTxIds |-> IF ptx[i].to_partner_id = p THEN ptx[i].amount
                                     ELSE -ptx[i].amount])]

\* a run of the earlier reconciliation block
reconcilePersonalBalances ==
  /\ CanStart
  /\ balance' = reconcile_sales_and_personal(balance)
  /\ Done("reconcilePersonalBalances", "ok", NULL, 0, NoSale, NoTx)
  /\ UNCHANGED <<sales, btx, ptx, pbal, jobs, conc>>

\* a run of the reconciliation block issued while a handler call is in
\* progress; the block is one statement, and its first UPDATE holds every
\* partners row until it commits
reconcileAllBalancesDuringCall ==
  /\ \E s \in Sessions : jobs[s] # Idle
  /\ reconcileAllBalances

\* the policy "Partners can insert their own profile" of partners:
\* WITH CHECK (auth.uid() = id); uid is NULL when the client has no session
InsertOwnProfile(uid, id) == uid # NULL /\ uid = id

\* INSERT INTO partners (id, ..., current_balance) sent with the session of
\* uid; the policy refuses a row of another id, the primary key an id that
\* exists
insertPartner(uid, bal, id, current_balance) ==
  IF InsertOwnProfile(uid, id) /\ id \notin DOMAIN bal
    THEN bal @@ (id :> current_balance)
    ELSE bal

\* the sessions the client can have after auth.signUp for a new user id,
\* called from a client whose session is that of u (NULL: none): that of the
\* new user, or the one it had when no session is returned for the new user
SessionAfterSignUp(u, id) == {u, id}

\* auth.signUp gives the new user an id that no call in progress has been given
SignUpInFlight(id) ==
  \E s \in Sessions : /\ jobs[s].kind \in {"signUp", "handlePartnerSubmit"}
                       /\ jobs[s].id = id

\* signUp up to the answer of auth.signUp for the new user id; session is the
\* session the client has from then on
signUp(s, id, session) ==
  /\ CanStart
  /\ FreeSession(s)
  /\ id \notin DOMAIN balance
  /\ ~SignUpInFlight(id)
  /\ session \in SessionAfterSignUp(NULL, id)
  /\ jobs' = [jobs EXCEPT ![s] =
        [Idle EXCEPT !.kind = "signUp", !.pc = "insertProfile",
                     !.uid = session, !.id = id, !.amount = 0,
                     !.bal0 = balance, !.pb0 = pbal]]
  /\ UNCHANGED <<balance, sales, btx, ptx, pbal, last, conc>>

\* signUp: insert of the profile of the new user with current_balance 0; an
\* insert refused by the policy, or by the primary key when the profile has
\* been inserted since auth.signUp answered, is logged and the sign-up goes on
signUpInsert(s) ==
  LET j == jobs[s]
  IN  /\ j.kind = "signUp" /\ j.pc = "insertProfile"
      /\ balance' = insertPartner(j.uid, balance, j.id, j.amount)
      /\ Finish(s, IF InsertOwnProfile(j.uid, j.id) /\ j.id \notin DOMAIN balance
                     THEN "ok" ELSE "error")
      /\ UNCHANGED <<sales, btx, ptx, pbal, conc, calls>>

\* ensurePartnerProfile up to the select of the profile: nothing more is done
\* when one exists
ensurePartnerProfile(s, id) ==
  /\ CanStart
  /\ FreeSession(s)
  /\ IF id \in DOMAIN balance
       THEN /\ Done("ensurePartnerProfile", "exists", id, 0, NoSale, NoTx)
            /\ UNCHANGED jobs
       ELSE /\ jobs' = [jobs EXCEPT ![s] =
                 [Idle EXCEPT !.kind = "ensurePartnerProfile", !.pc = "insertProfile",
                              !.uid = id]]
            /\ UNCHANGED last
  /\ UNCHANGED <<balance, sales, btx, ptx, pbal, conc>>

\* ensurePartnerProfile: insert of the profile of the session's user with
\* current_balance 0; the primary key refuses it when the profile has been
\* inserted since the select
ensurePartnerProfileInsert(s) ==
  LET j == jobs[s]
  IN  /\ j.kind = "ensurePartnerProfile" /\ j.pc = "insertProfile"
      /\ balance' = insertPartner(j.uid, balance, j.uid, 0)
      /\ Finish(s, IF j.uid \in DOMAIN balance THEN "error" ELSE "ok")
      /\ UNCHANGED <<sales, btx, ptx, pbal, conc, calls>>

\* handlePartnerSubmit, the add-partner form submitted by u, up to the answer
\* of auth.signUp for the new user id; session is the session the client has
\* from then on
handlePartnerSubmit(s, u, id, initial_balance, session) ==
  /\ CanStart
  /\ FreeSession(s)
  /\ u # id
  /\ id \notin DOMAIN balance
  /\ ~SignUpInFlight(id)
  /\ session \in SessionAfterSignUp(u, id)
  /\ jobs' = [jobs EXCEPT ![s] =
        [Idle EXCEPT !.kind = "handlePartnerSubmit", !.pc = "insertProfile",
                     !.uid = session, !.id = id, !.amount = initial_balance,
                     !.bal0 = balance, !.pb0 = pbal]]
  /\ UNCHANGED <<balance, sales, btx, ptx, pbal, last, conc>>

\* handlePartnerSubmit: insert of the profile with current_balance =
\* initial_balance as entered; an insert refused by the policy, or by the
\* primary key when the profile has been inserted since auth.signUp answered,
\* ends the call with an alert
handlePartnerSubmitInsert(s) ==
  LET j == jobs[s]
  IN  /\ j.kind = "handlePartnerSubmit" /\ j.pc = "insertProfile"
      /\ balance' = insertPartner(j.uid, balance, j.id, j.amount)
      /\ Finish(s, IF InsertOwnProfile(j.uid, j.id) /\ j.id \notin DOMAIN balance
                     THEN "ok" ELSE "error")
      /\ UNCHANGED <<sales, btx, ptx, pbal, conc, calls>>

\* handleSubmit where partners come and go: the page is used by a partner with
\* a profile, and the partner of the entry is chosen from the profiles
handleSubmitOfPartner(s, u, editingId, date, partner, amt) ==
  /\ u \in DOMAIN balance
  /\ partner \in DOMAIN balance
  /\ handleSubmit(s, u, editingId, date, partner, amt)

\* an INSERT into partner_transactions with a status, issued by u through the
\* store interface with u as approver of a row that is not pending
insertTransaction(u, from, to, amt, status) ==
  LET id == NewId(btx)
      new == [NoTx EXCEPT !.st = "live", !.from_partner_id = from,
                          !.to_partner_id = to, !.amount = amt, !.status = status,
                          !.approved_by = IF status = "pending" THEN NULL ELSE u,
                          !.approved_at = (status # "pending")]
  IN  /\ CanStart
      /\ Free(btx) # {}
      /\ IF InvolvesSelf(u, new) /\ different_partners(new)
            /\ valid_business_approval_status(new)
           THEN /\ btx' = [btx EXCEPT ![id] = new]
                /\ balance' = update_business_partner_balances(u, balance, "INSERT",
                                                               NoTx, new)
                /\ DoneWith("insertTransaction", "ok", u, id, status, NoSale, NoTx)
           ELSE /\ UNCHANGED <<balance, btx>>
                /\ DoneWith("insertTransaction", "error", u, id, status, NoSale, NoTx)
      /\ UNCHANGED <<sales, ptx, pbal, jobs, conc>>

----------------------------------------------------------------------------
Actions == {"approve", "reject", "rejectWithReason"}

SalesNext ==
  \/ \E s \in Sessions, u \in Partners, e \in SaleIds \cup {NULL},
        d \in Dates, p \in Partners, a \in Amounts : handleSubmit(s, u, e, d, p, a)
  \/ \E s \in Sessions : handleSubmitInsert(s)
  \/ \E s \in Sessions : updatePartnerBalanceRead(s)
  \/ \E s \in Sessions : updatePartnerBalanceWrite(s)
  \/ \E s \in Sessions : handleSubmitUpdate(s)
  \/ \E u \in Partners, i \in SaleIds : handleDelete(u, i)

BusinessNext ==
  \/ \E u \in Partners, f \in Partners, t \in Partners, a \in Amounts :
        handleTransactionSubmit(u, f, t, a)
  \/ \E s \in Sessions, u \in Partners, t \in TxIds, act \in Actions :
        handleApproveTransaction(s, u, t, act)
  \/ \E s \in Sessions : handleApproveUpdate(s)
  \/ \E s \in Sessions : handleApproveReadSender(s)
  \/ \E s \in Sessions : handleApproveReadReceiver(s)
  \/ \E s \in Sessions : handleApproveWriteSender(s)
  \/ \E s \in Sessions : handleApproveWriteReceiver(s)
  \/ \E u \in Partners, t \in TxIds : handleDeleteTransaction(u, t)
  \/ \E u \in Partners, t \in TxIds, a \in Amounts : updateTransactionAmount(u, t, a)
  \/ \E u \in Partners, t \in TxIds, st \in Statuses : updateTransactionStatus(u, t, st)

PersonalNext ==
  \/ \E u \in Partners, f \in Partners, t \in Partners, a \in Amounts :
        handleTransactionSubmitPersonal(u, f, t, a)
  \/ \E u \in Partners, t \in PTxIds, act \in Actions :
        handleTransactionApproval(u, t, act)
  \/ \E u \in Partners, t \in PTxIds, a \in Amounts : updatePersonalAmount(u, t, a)
  \/ \E u \in Partners, t \in PTxIds, st \in Statuses : updatePersonalStatus(u, t, st)
  \/ \E u \in Partners, t \in PTxIds : deletePersonalTransaction(u, t)

\* the statements on existing personal transactions
PersonalEditNext ==
  \/ \E u \in Partners, t \in PTxIds, act \in Actions :
        handleTransactionApproval(u, t, act)
  \/ \E u \in Partners, t \in PTxIds, a \in Amounts : updatePersonalAmount(u, t, a)
  \/ \E u \in Partners, t \in PTxIds, st \in Statuses : updatePersonalStatus(u, t, st)
  \/ \E u \in Partners, t \in PTxIds : deletePersonalTransaction(u, t)
  \/ \E u \in Partners, t \in PTxIds, f \in Partners, r \in Partners :
        updatePersonalPartners(u, t, f, r)

\* the amounts a statement issued through the store interface may carry
AnyAmounts == (0 - MaxAmount)..MaxAmount

\* creating transactions and editing their amounts; the business form accepts
\* amounts from 0.01 upwards, the other statements carry any amount
AmountsNext ==
  \/ \E u \in Partners, f \in Partners, t \in Partners, a \in Amounts :
        handleTransactionSubmit(u, f, t, a)
  \/ \E u \in Partners, t \in TxIds, a \in AnyAmounts : updateTransactionAmount(u, t, a)
  \/ \E u \in Partners, f \in Partners, t \in Partners, a \in AnyAmounts :
        handleTransactionSubmitPersonal(u, f, t, a)
  \/ \E u \in Partners, t \in PTxIds, a \in AnyAmounts : updatePersonalAmount(u, t, a)

\* partners entering the system, sales entered on the page for existing
\* partners, and runs of the reconciliation block
PartnersNext ==
  \/ \E s \in Sessions, id \in Partners, ses \in Partners \cup {NULL} :
        signUp(s, id, ses)
  \/ \E s \in Sessions : signUpInsert(s)
  \/ \E s \in Sessions, id \in Partners : ensurePartnerProfile(s, id)
  \/ \E s \in Sessions : ensurePartnerProfileInsert(s)
  \/ \E s \in Sessions, u \in Partners, id \in Partners, b \in AnyAmounts,
        ses \in Partners : handlePartnerSubmit(s, u, id, b, ses)
  \/ \E s \in Sessions : handlePartnerSubmitInsert(s)
  \/ \E s \in Sessions, u \in Partners, e \in SaleIds \cup {NULL},
        d \in Dates, p \in Partners, a \in Amounts :
        handleSubmitOfPartner(s, u, e, d, p, a)
  \/ \E s \in Sessions : handleSubmitInsert(s)
  \/ \E s \in Sessions : updatePartnerBalanceRead(s)
  \/ \E s \in Sessions : updatePartnerBalanceWrite(s)
  \/ \E s \in Sessions : handleSubmitUpdate(s)
  \/ reconcileAllBalances

SalesStoreNext ==
  \/ \E u \in Partners, d \in Dates, p \in Partners \cup {NULL}, a \in Amounts :
        insertSale(u, d, p, a)
  \/ \E u \in Partners, i \in SaleIds, p \in Partners \cup {NULL}, a \in Amounts :
        updateSale(u, i, p, a)
  \/ \E u \in Partners, i \in SaleIds : handleDelete(u, i)
  \/ \E s \in Sessions, u \in Partners, e \in SaleIds \cup {NULL},
        d \in Dates, a \in Amounts : handleSubmitWithoutPartner(s, u, e, d, a)
  \/ \E s \in Sessions : handleSubmitWithoutPartnerInsert(s)
  \/ \E s \in Sessions : handleSubmitWithoutPartnerUpdate(s)

TxStoreNext ==
  \/ \E u \in Partners, t \in TxIds, st \in Statuses : setTransactionStatus(u, t, st)
  \/ \E u \in Partners, t \in PTxIds, st \in Statuses : setPersonalStatus(u, t, st)

\* the calls of handleApproveTransaction
ApproveNext ==
  \/ \E s \in Sessions, u \in Partners, t \in TxIds, act \in Actions :
        handleApproveTransaction(s, u, t, act)
  \/ \E s \in Sessions : handleApproveUpdate(s)
  \/ \E s \in Sessions : handleApproveReadSender(s)
  \/ \E s \in Sessions : handleApproveReadReceiver(s)
  \/ \E s \in Sessions : handleApproveWriteSender(s)
  \/ \E s \in Sessions : handleApproveWriteReceiver(s)

\* the statements on partner_transactions issued through the store interface
BusinessStoreNext ==
  \/ \E u \in Partners, f \in Partners, t \in Partners, a \in Amounts,
        st \in Statuses : insertTransaction(u, f, t, a, st)
  \/ \E u \in Partners, t \in TxIds, a \in Amounts : updateTransactionAmount(u, t, a)
  \/ \E u \in Partners, t \in TxIds, st \in Statuses : updateTransactionStatus(u, t, st)
  \/ \E u \in Partners, t \in TxIds, st \in Statuses : setTransactionStatus(u, t, st)
  \/ \E u \in Partners, t \in TxIds, f \in Partners, r \in Partners :
        updateTransactionPartners(u, t, f, r)
  \/ \E u \in Partners, t \in TxIds : handleDeleteTransaction(u, t)

Next == SalesNext \/ BusinessNext \/ PersonalNext

Spec == Init /\ [][Next]_vars
SpecSales == Init /\ [][SalesNext]_vars
SpecBusiness == Init /\ [][BusinessNext]_vars
SpecPersonal == Init /\ [][PersonalNext]_vars
SpecTx == Init /\ [][BusinessNext \/ PersonalNext]_vars
SpecLedger == Init /\ [][SalesNext \/ BusinessNext]_vars
SpecSalesConc == InitConc /\ [][SalesNext]_vars
SpecSalesDates == InitSaleConc /\ [][SalesNext]_vars
SpecSalesStore == Init /\ [][SalesStoreNext]_vars
SpecBusinessConc == InitPendingConc /\ [][BusinessNext]_vars
SpecPersonalPair == InitPersonalPending /\ [][PersonalEditNext]_vars
SpecDomains ==
  Init /\ [][SalesStoreNext \/ PersonalNext \/ reconcilePersonalBalances]_vars
SpecReconConc ==
  InitPendingConc
  /\ [][BusinessNext \/ reconcileAllBalancesDuringCall]_vars
SpecAmounts == Init /\ [][AmountsNext]_vars
SpecBusinessEdit ==
  Init /\ [][BusinessNext
             \/ \E u \in Partners, t \in TxIds, f \in Partners, r \in Partners :
                   updateTransactionPartners(u, t, f, r)]_vars
SpecPartners == InitNoPartners /\ [][PartnersNext]_vars
SpecBusinessFail ==
  Init /\ [][BusinessNext \/ \E s \in Sessions : storageFailure(s)]_vars
SpecBusinessAll == Init /\ [][BusinessStoreNext \/ ApproveNext]_vars
SpecTxStore == Init /\ [][BusinessNext \/ PersonalNext \/ TxStoreNext]_vars
SpecRecon == Init /\ [][SalesNext \/ BusinessNext \/ reconcileAllBalances]_vars

----------------------------------------------------------------------------
(* Properties.  In a sequential run, when no call is in progress, last holds   *)
(* the call that has just returned and the present state is its post-state.    *)

Returned(op) == AllIdle /\ last.op = op

\* the balances after moving d from partner a to partner b, starting from bal
Moved(bal, a, b, d) == [p \in DOMAIN bal |->
                          bal[p] - (IF p = a THEN d ELSE 0) + (IF p = b THEN d ELSE 0)]

\* C1: after any sequence of ledger operations, every partner's stored balance
\* equals the value the reconciliation computes from the current rows: sales
\* attributed to the partner, plus approved business transactions received,
\* minus approved business transactions sent.
C1_BalanceEqualsReconciliation ==
  AllIdle => \A p \in Partners : balance[p] = Reconciled(p)

\* C2: when the receiver approves a pending business transaction of amount X,
\* the sender's balance goes down by X, the receiver's up by X, and no other
\* balance changes.
C2_ApproveMovesAmountOnce ==
  ( /\ AllIdle
    /\ last.op \in {"handleApproveTransaction", "updateTransactionStatus"}
    /\ last.action \in {"approve", "approved"}
    /\ last.out = "ok"
    /\ last.tx0.status = "pending"
    /\ last.uid = last.tx0.to_partner_id )
  => balance = Moved(last.bal0, last.tx0.from_partner_id, last.tx0.to_partner_id,
                     last.tx0.amount)

\* C3: creating a transaction, business or personal, stores it as pending and
\* changes no partner balance and no pairwise balance.
C3_PendingCreateChangesNoBalance ==
  /\ (Returned("handleTransactionSubmit") /\ last.out = "ok")
       => /\ btx[last.id].st = "live" /\ btx[last.id].status = "pending"
          /\ balance = last.bal0 /\ pbal = last.pb0
  /\ (Returned("handleTransactionSubmitPersonal") /\ last.out = "ok")
       => /\ ptx[last.id].st = "live" /\ ptx[last.id].status = "pending"
          /\ balance = last.bal0 /\ pbal = last.pb0

\* a business transaction has just been created after an approval had already
\* moved balances
C3_Witness ==
  /\ Returned("handleTransactionSubmit") /\ last.out = "ok"
  /\ btx[last.id].status = "pending"
  /\ \E p \in Partners : last.bal0[p] # 0

\* C4: approving a business transaction that is already approved fails and
\* leaves every balance unchanged.
C4_SecondApproveFails ==
  ( /\ Returned("handleApproveTransaction")
    /\ last.action = "approve"
    /\ last.tx0.status = "approved" )
  => last.out = "error" /\ balance = last.bal0

\* C5: an attempt to approve or reject a pending business transaction by anyone
\* but its receiver fails and changes neither the transaction nor any balance.
C5_OnlyReceiverDecides ==
  ( /\ AllIdle
    /\ last.op \in {"handleApproveTransaction", "updateTransactionStatus"}
    /\ last.action \in {"approve", "reject", "rejectWithReason", "approved", "rejected"}
    /\ last.tx0.st = "live" /\ last.tx0.status = "pending"
    /\ last.uid # last.tx0.to_partner_id )
  => last.out # "ok" /\ btx[last.id] = last.tx0 /\ balance = last.bal0

\* C6: when the receiver rejects a pending transaction, business or personal,
\* the rejection succeeds, the transaction becomes rejected with approved_by set
\* to the receiver, and every partner balance and pairwise balance keeps the
\* value it had before the rejection.
C6_ReceiverRejects ==
  /\ ( /\ AllIdle
       /\ last.op \in {"handleApproveTransaction", "updateTransactionStatus"}
       /\ last.action \in {"reject", "rejectWithReason", "rejected"}
       /\ last.tx0.st = "live" /\ last.tx0.status = "pending"
       /\ last.uid = last.tx0.to_partner_id )
     => /\ last.out = "ok"
        /\ btx[last.id].status = "rejected"
        /\ btx[last.id].approved_by = last.uid
        /\ btx[last.id].rejection_reason = (last.action = "rejectWithReason")
        /\ balance = last.bal0 /\ pbal = last.pb0
  /\ ( /\ AllIdle
       /\ last.op \in {"handleTransactionApproval", "updatePersonalStatus"}
       /\ last.action \in {"reject", "rejectWithReason", "rejected"}
       /\ last.tx0.st = "live" /\ last.tx0.status = "pending"
       /\ last.uid = last.tx0.to_partner_id )
     => /\ last.out = "ok"
        /\ ptx[last.id].status = "rejected"
        /\ ptx[last.id].approved_by = last.uid
        /\ ptx[last.id].rejection_reason = (last.action = "rejectWithReason")
        /\ balance = last.bal0 /\ pbal = last.pb0

\* C7: a partner balance changes only within a statement on a ledger table,
\* where the table's trigger applies the change; no handler writes a balance
\* on its own.
C7_BalanceWrittenOnlyByTriggers ==
  [][balance' # balance => (sales' # sales \/ btx' # btx)]_vars

\* C8: a run that creates a sale and then deletes that sale ends with every
\* partner balance at the value it had before the create.
C8_CreateThenDeleteRestores ==
  ( /\ Returned("handleDelete")
    /\ last.out = "ok"
    /\ calls = MaxCalls - 2 )
  => balance = [p \in Partners |-> 0]

\* at most one live sale per date
UniqueDates ==
  \A i \in Live(sales), j \in Live(sales) : i # j => sales[i].date # sales[j].date

C10_ApprovedAmountChange ==
  ( /\ Returned("updateTransactionAmount")
    /\ last.tx0.st = "live" /\ last.tx0.status = "approved"
    /\ btx[last.id].status = "approved"
    /\ btx[last.id].amount # last.tx0.amount )
  => balance = Moved(last.bal0, last.tx0.from_partner_id, last.tx0.to_partner_id,
                     btx[last.id].amount - last.tx0.amount)

\* C11: deleting an approved business transaction of amount X gives X back to
\* the sender and takes X from the receiver; deleting a pending or rejected
\* transaction changes no balance.
C11_DeleteReversesApproved ==
  ( /\ Returned("handleDeleteTransaction")
    /\ last.out = "ok" )
  => /\ btx[last.id].st = "gone"
     /\ balance = IF last.tx0.status = "approved"
                    THEN Moved(last.bal0, last.tx0.to_partner_id,
                               last.tx0.from_partner_id, last.tx0.amount)
                    ELSE last.bal0

\* balance_amount of the pair k, 0 when the pair has no row
PairAmount(pb, k) == IF k \in DOMAIN pb THEN pb[k] ELSE 0

\* pb and pb0 agree on every pair but k
SameButPair(pb, pb0, k) ==
  \A q \in (DOMAIN pb \cup DOMAIN pb0) \ {k} : PairAmount(pb, q) = PairAmount(pb0, q)

\* C12: approving a personal transaction from A to B of amount X lowers the
\* pair's balance_amount by X when A < B and raises it by X when A > B, and
\* deleting the approved transaction takes that change back; no other pair changes.
C12_PersonalApproveAndDelete ==
  /\ ( /\ AllIdle
       /\ last.op \in {"handleTransactionApproval", "updatePersonalStatus"}
       /\ last.action \in {"approve", "approved"}
       /\ last.out = "ok"
       /\ last.tx0.status = "pending" )
     => /\ PairAmount(pbal, PairKey(last.tx0))
             = PairAmount(last.pb0, PairKey(last.tx0))
               + (IF last.tx0.from_partner_id < last.tx0.to_partner_id
                    THEN -last.tx0.amount ELSE last.tx0.amount)
        /\ SameButPair(pbal, last.pb0, PairKey(last.tx0))
  /\ ( /\ Returned("deletePersonalTransaction")
       /\ last.out = "ok"
       /\ last.tx0.status = "approved" )
     => /\ PairAmount(pbal, PairKey(last.tx0))
             = PairAmount(last.pb0, PairKey(last.tx0))
               - (IF last.tx0.from_partner_id < last.tx0.to_partner_id
                    THEN -last.tx0.amount ELSE last.tx0.amount)
        /\ SameButPair(pbal, last.pb0, PairKey(last.tx0))
  /\ ( /\ Returned("deletePersonalTransaction")
       /\ last.out = "ok"
       /\ last.tx0.status = "approved"
       /\ calls = MaxCalls - 3 )
     => PairAmount(pbal, PairKey(last.tx0)) = 0

\* a personal transaction whose sender has the smaller identity was created,
\* approved and has just been deleted
C12_Witness ==
  /\ Returned("deletePersonalTransaction")
  /\ last.out = "ok"
  /\ last.tx0.status = "approved"
  /\ last.tx0.from_partner_id < last.tx0.to_partner_id
  /\ PairAmount(last.pb0, PairKey(last.tx0)) = -last.tx0.amount
  /\ calls = MaxCalls - 3

\* C13: right after a run of the reconciliation, a second run leaves every
\* partner balance at the value the first run stored, whatever the balances
\* were before the first run.
C13_ReconcileIdempotent ==
  Returned("reconcileAllBalances") => reconcile_all_balances(balance) = balance

\* a run of the reconciliation has just corrected a balance that was off
C13_Witness ==
  /\ Returned("reconcileAllBalances")
  /\ \E p \in Partners : last.bal0[p] # balance[p] /\ balance[p] # 0

\* C14: no stored transaction, business or personal, has the same partner as
\* sender and receiver; a create that fails stores no row and changes no balance;
\* every transaction that is created starts as pending.
C14_DifferentPartnersAndPendingStart ==
  /\ \A t \in Live(btx) : btx[t].from_partner_id # btx[t].to_partner_id
  /\ \A t \in Live(ptx) : ptx[t].from_partner_id # ptx[t].to_partner_id
  /\ Returned("handleTransactionSubmit")
       => IF last.out = "ok"
            THEN btx[last.id].st = "live" /\ btx[last.id].status = "pending"
            ELSE btx[last.id].st = "free" /\ balance = last.bal0
  /\ Returned("handleTransactionSubmitPersonal")
       => IF last.out = "ok"
            THEN ptx[last.id].st = "live" /\ ptx[last.id].status = "pending"
            ELSE ptx[last.id].st = "free" /\ pbal = last.pb0

\* a personal create with the sender as receiver has just been refused by the
\* table's constraint and left no row
C14_Witness ==
  /\ Returned("handleTransactionSubmitPersonal")
  /\ last.out = "CheckViolation"
  /\ ptx[last.id].st = "free"

\* C15: creating a sale attributed to a partner adds the sale's amount to that
\* partner's balance exactly once and changes no other balance.
C15_SaleCreateAddsAmountOnce ==
  ( /\ Returned("handleSubmit")
    /\ last.out = "ok"
    /\ last.sale0 = NoSale
    /\ sales[last.id].st = "live" )
  => balance = Moved(last.bal0, NULL, sales[last.id].partner_id,
                     sales[last.id].total_amount)

\* the balances after taking the sale row o out of bal and putting the sale row
\* n in, each only when its partner is set
Reattributed(bal, o, n) ==
  LET b1 == IF o.partner_id \in Partners
              THEN [bal EXCEPT ![o.partner_id] = @ - o.total_amount] ELSE bal
  IN  IF n.partner_id \in Partners
        THEN [b1 EXCEPT ![n.partner_id] = @ + n.total_amount] ELSE b1

\* C16: a sale update that changes the partner or the amount removes the old
\* amount from the old partner, if set, and adds the new amount to the new
\* partner, if set, also when the partner goes from unset to set or from set to
\* unset with the amount unchanged; an update that changes neither changes no
\* balance.
C16_SaleUpdateReattributes ==
  ( /\ AllIdle
    /\ last.op \in {"updateSale", "handleSubmit"}
    /\ last.out = "ok"
    /\ last.sale0.st = "live" )
  => balance = IF last.sale0.partner_id = sales[last.id].partner_id
                  /\ last.sale0.total_amount = sales[last.id].total_amount
                 THEN last.bal0
                 ELSE Reattributed(last.bal0, last.sale0, sales[last.id])

\* the status-field rule for one transaction row
StatusFieldsOk(r) ==
  /\ r.status = "pending" => (r.approved_by = NULL /\ r.approved_at = FALSE)
  /\ r.status = "approved" => (r.approved_by # NULL /\ r.approved_at = TRUE)
  /\ r.status = "rejected" => r.approved_by # NULL

\* C17: in every reachable state every business and personal transaction is
\* pending with approved_by and approved_at unset, or approved with both set, or
\* rejected with approved_by set.
C17_StatusFieldInvariant ==
  /\ \A t \in Live(btx) : StatusFieldsOk(btx[t])
  /\ \A t \in Live(ptx) : StatusFieldsOk(ptx[t])

\* a status-only update to approved has just been refused on a pending business
\* transaction, which is still pending with its approval fields unset
C17_Witness ==
  /\ Returned("setTransactionStatus")
  /\ last.action = "approved"
  /\ last.out = "error"
  /\ last.tx0.status = "pending"
  /\ btx[last.id] = last.tx0

\* C18: a statement on a rejected business transaction, by any partner, leaves
\* it rejected with all its fields as they were, or deletes it, and changes no
\* balance.
C18_RejectedIsTerminal ==
  ( /\ AllIdle
    /\ last.op \in {"handleApproveTransaction", "handleDeleteTransaction",
                    "updateTransactionAmount", "updateTransactionStatus",
                    "setTransactionStatus", "updateTransactionPartners"}
    /\ last.tx0.st = "live"
    /\ last.tx0.status = "rejected" )
  => /\ btx[last.id].st = "gone" \/ btx[last.id] = last.tx0
     /\ balance = last.bal0

\* C19: after a run that creates a business transaction, approves it and resets
\* it to pending, the transaction has approved_by, approved_at and
\* rejection_reason unset and every balance is what it was before the approval.
C19_ResetRestoresPreApproval ==
  ( /\ Returned("updateTransactionStatus")
    /\ last.action = "pending"
    /\ last.out = "ok"
    /\ last.tx0.status = "approved"
    /\ calls = MaxCalls - 3 )
  => /\ btx[last.id].status = "pending"
     /\ btx[last.id].approved_by = NULL
     /\ btx[last.id].approved_at = FALSE
     /\ btx[last.id].rejection_reason = FALSE
     /\ balance = [p \in Partners |-> 0]

\* C20: with one business transaction of amount X in the ledger, however the
\* approve calls on it were repeated or interleaved, once they have returned the
\* balances hold the amount exactly once if the transaction is approved and not
\* at all otherwise.
C20_AppliedExactlyOnce ==
  ( /\ AllIdle
    /\ btx[1].st = "live"
    /\ \A t \in TxIds \ {1} : btx[t].st = "free" )
  => balance = IF btx[1].status = "approved"
                 THEN Moved([p \in Partners |-> 0], btx[1].from_partner_id,
                            btx[1].to_partner_id, btx[1].amount)
                 ELSE [p \in Partners |-> 0]


\* C21: after two sale creates issued by different sessions have overlapped and
\* both returned, each for a sale that its own creator is the partner of, the
\* balance of every partner holds at least the amounts of the sales attributed
\* to it: the amount of neither sale is missing.
C21_NoLostUpdate ==
  ( /\ conc
    /\ AllIdle
    /\ calls = 0
    /\ \A i \in SaleIds : sales[i].st = "live"
                           /\ sales[i].partner_id = sales[i].created_by )
  => \A p \in Partners : balance[p] >= Reconciled(p)


\* C22: when an approve call has ended, with or without a storage error on the
\* way, the sender's and the receiver's balance have changed by opposite
\* amounts since the call was issued: the amount is never applied to one side
\* only.
C22_AllOrNothing ==
  ( /\ Returned("handleApproveTransaction")
    /\ last.action = "approve" )
  => LET f == last.tx0.from_partner_id
         t == last.tx0.to_partner_id
     IN  balance[f] - last.bal0[f] = - (balance[t] - last.bal0[t])


\* the sum the approved personal transactions between the pair k = (lo, hi)
\* stand for: -amount when the sender is lo, +amount when the sender is hi
PairNet(k) ==
  LET S == {i \in Live(ptx) : /\ ptx[i].status = "approved"
                              /\ {ptx[i].from_partner_id, ptx[i].to_partner_id}
                                   = {k[1], k[2]}}
  IN  SumOver(S, [i \in PTxIds |-> IF ptx[i].from_partner_id = k[1]
                                      THEN - ptx[i].amount
                                      ELSE ptx[i].amount])

\* C23: every personal_balances row is keyed (lo, hi) with lo < hi and holds the
\* signed sum of the approved personal transactions between its pair, and a
\* pair without a row has no net amount, in whatever order the statements of
\* the sessions were executed.
C23_PairwiseBalanceIsSignedSum ==
  /\ \A k \in DOMAIN pbal : k[1] < k[2] /\ pbal[k] = PairNet(k)
  /\ \A lo \in Partners, hi \in Partners :
       (lo < hi /\ <<lo, hi>> \notin DOMAIN pbal) => PairNet(<<lo, hi>>) = 0


\* the operations on personal transactions and the reconciliation over them
PersonalOps ==
  {"handleTransactionSubmitPersonal", "handleTransactionApproval",
   "updatePersonalAmount", "updatePersonalStatus", "deletePersonalTransaction",
   "reconcilePersonalBalances"}

\* C24: no personal-transaction operation and no run of the reconciliation
\* over personal transactions changes a partner's balance, and a
\* personal_balances row changes only in a personal-transaction operation,
\* never in a sale or business-transaction operation.
C24_DomainsIndependent ==
  [][ /\ (calls' # calls /\ last'.op \in PersonalOps) => balance' = balance
      /\ pbal' # pbal => (calls' # calls /\ last'.op \in PersonalOps) ]_vars

\* C25: when the handler call that a reconciliation run overlapped returns, and
\* with it every call of the run has completed, each partner's balance is the
\* sum of its sales plus the net of its approved business transactions.
C25_ReconcileOverlapConsistent ==
  [][ ( /\ last.op = "reconcileAllBalances"
        /\ last'.op # "reconcileAllBalances"
        /\ AllIdle'
        /\ calls' = 0 )
      => \A p \in Partners : balance'[p] = Reconciled(p)' ]_vars


\* C26: every stored business transaction and every stored personal
\* transaction has an amount greater than 0.
C26_AmountsPositive ==
  /\ \A t \in Live(btx) : btx[t].amount > 0
  /\ \A t \in Live(ptx) : ptx[t].amount > 0


\* C27: whenever no call is in progress, the balances of all partners add up to
\* the amounts of all sales attributed to a partner: the business-transaction
\* operations have moved money between partners without creating or losing any.
C27_MoneyConserved ==
  AllIdle =>
    SumOver(Partners, balance)
      = SumOver({i \in Live(sales) : sales[i].partner_id # NULL},
                [i \in SaleIds |-> sales[i].total_amount])


\* C28: an edit of the amount of a pending business transaction changes no
\* balance, and when the approve call that follows or overlaps the edit returns
\* with the transaction approved, the balances have moved by exactly the amount
\* the transaction then has.
C28_ApprovalAppliesEditedAmount ==
  [][ /\ ( /\ calls' # calls
           /\ last'.op = "updateTransactionAmount"
           /\ last'.tx0.status = "pending" )
         => balance' = balance
      /\ ( /\ last.op = "updateTransactionAmount"
           /\ last.out = "ok"
           /\ last.tx0.status = "pending"
           /\ last.tx0.amount # btx[last.id].amount
           /\ last'.op = "handleApproveTransaction"
           /\ last'.action = "approve"
           /\ last'.id = last.id
           /\ AllIdle'
           /\ btx'[last.id].st = "live"
           /\ btx'[last.id].status = "approved" )
         => balance' = Moved(last.bal0, btx'[last.id].from_partner_id,
                             btx'[last.id].to_partner_id, btx'[last.id].amount) ]_vars


\* C29: an update that changes the sender or the receiver of an approved
\* business transaction and leaves it approved changes every partner's balance
\* by as much as the net of that partner's approved transactions and sales
\* changes: the balance effect moves with the transaction.
C29_BalanceFollowsPartners ==
  [][ ( /\ calls' # calls
        /\ last'.op = "updateTransactionPartners"
        /\ last'.out = "ok"
        /\ last'.tx0.status = "approved"
        /\ btx'[last'.id].status = "approved" )
      => \A p \in Partners :
           balance'[p] - balance[p] = Reconciled(p)' - Reconciled(p) ]_vars


\* C30: a run of the reconciliation block changes no partner's balance in a
\* state in which the partners have entered through sign-up, profile
\* auto-creation or the add-partner form and sales have been entered for them.
C30_ReconcileChangesNothing ==
  [][ ( /\ calls' # calls
        /\ last'.op = "reconcileAllBalances" )
      => balance' = balance ]_vars

====
